---- MODULE Spec2Model ----
(***************************************************************************)
(* Model of the representative-station pipeline of airhealth-dashboard     *)
(* (src/data/NOAA/rep_station.py): the API client req_json, year_slices,   *)
(* pick_representative_station, daily_to_period_station and the region     *)
(* loop of main.                                                           *)
(*                                                                         *)
(* Pure functions are operators; each is exercised by a specification      *)
(* whose Init draws the arguments (variable call) and whose action stores  *)
(* the value the function returns (variable ret).  req_json is a state     *)
(* machine of its own (variable rq), one action per kind of response.      *)
(* main is a state machine over the remaining variables.                   *)
(***************************************************************************)
EXTENDS Integers, Sequences, FiniteSets, TLC

VARIABLES
    call,             \* arguments of the pure function under check
    ret,              \* <<>> before the call, then <<the value returned>>
    rq,               \* one call of req_json: position, attempt, last_exc, ...
    args,             \* main: parsed command line (resume, save_raw, ...)
    pc,               \* main: position in the region loop
    ridx,             \* main: index of the current region in state_list
    stations,         \* main: the listing of the current region
    sel,              \* main: the selected station (rep.iloc[0])
    todo,             \* main: year slices not yet visited
    per_year_paths,   \* main: per_year_paths
    all_daily_parts,  \* main: all_daily_parts
    daily_df,         \* main: daily_df
    agg,              \* main: agg
    parts,            \* file system: parts/<id>_<year>.csv -> rows, when present
    outputs,          \* file system: per-region files written by this run
    log,              \* messages printed by this run
    hist              \* observation: requests issued and slice results

vars == <<call, ret, rq, args, pc, ridx, stations, sel, todo, per_year_paths,
          all_daily_parts, daily_df, agg, parts, outputs, log, hist>>

mainVars == <<args, pc, ridx, stations, sel, todo, per_year_paths,
              all_daily_parts, daily_df, agg, parts, outputs, log, hist>>

\* pandas' missing values: NaT for a date, NaN for a number
NaT == [y |-> 0, m |-> 0, d |-> 0]
NaN == -1

-----------------------------------------------------------------------------
(* datetime.date: a record [y, m, d]; ordering, ordinal and weekday as in   *)
(* Python (date.toordinal: 0001-01-01 is day 1; weekday: Monday is 0).      *)

Date(y, m, d) == [y |-> y, m |-> m, d |-> d]

IsLeap(y) == (y % 4 = 0) /\ ((y % 100 # 0) \/ (y % 400 = 0))

DaysInMonth(y, m) ==
    IF m = 2 THEN (IF IsLeap(y) THEN 29 ELSE 28)
    ELSE IF m \in {4, 6, 9, 11} THEN 30 ELSE 31

RECURSIVE DaysBeforeMonth(_, _)
DaysBeforeMonth(y, m) ==
    IF m = 1 THEN 0 ELSE DaysBeforeMonth(y, m - 1) + DaysInMonth(y, m - 1)

DaysBeforeYear(y) ==
    365 * (y - 1) + ((y - 1) \div 4) - ((y - 1) \div 100) + ((y - 1) \div 400)

ToOrdinal(dt) == DaysBeforeYear(dt.y) + DaysBeforeMonth(dt.y, dt.m) + dt.d

Weekday(dt) == (ToOrdinal(dt) + 6) % 7

DateLT(a, b) ==
    \/ a.y < b.y
    \/ a.y = b.y /\ a.m < b.m
    \/ a.y = b.y /\ a.m = b.m /\ a.d < b.d

DateLE(a, b) == a = b \/ DateLT(a, b)

DateMax(a, b) == IF DateLT(a, b) THEN b ELSE a

DateMin(a, b) == IF DateLT(b, a) THEN b ELSE a

PrevDay(dt) ==
    IF dt.d > 1 THEN Date(dt.y, dt.m, dt.d - 1)
    ELSE IF dt.m > 1 THEN Date(dt.y, dt.m - 1, DaysInMonth(dt.y, dt.m - 1))
    ELSE Date(dt.y - 1, 12, 31)

RECURSIVE MinusDays(_, _)
MinusDays(dt, n) == IF n = 0 THEN dt ELSE MinusDays(PrevDay(dt), n - 1)

-----------------------------------------------------------------------------
(* year_slices                                                              *)

StartLimitYear == 2002
EndLimitYear   == 2025

start_limit == Date(StartLimitYear, 1, 1)
end_limit   == Date(EndLimitYear, 12, 31)

\* mutant of YearSlice: the last year is not cut at end
YearSlice_NoEndClip(y, start, end) ==
    <<IF y = start.y THEN start ELSE Date(y, 1, 1), Date(y, 12, 31)>>

\* the body of the for loop, for year y of range(start.year, end.year + 1)
YearSlice(y, start, end) ==
    <<IF y = start.y THEN start ELSE Date(y, 1, 1),
      IF y = end.y THEN end ELSE Date(y, 12, 31)>>

year_slices(mind, maxd) ==
    IF mind = NaT \/ maxd = NaT THEN <<>>
    ELSE IF DateLT(maxd, mind) THEN <<>>
    ELSE LET start == DateMax(mind, start_limit)
             end   == DateMin(maxd, end_limit)
         IN  IF DateLT(end, start) THEN <<>>
             ELSE [i \in 1..(end.y - start.y + 1) |->
                      YearSlice(start.y + i - 1, start, end)]

-----------------------------------------------------------------------------
(* pick_representative_station                                              *)
(* A station is a record [id, datacoverage, mindate, maxdate]; an id is the *)
(* sequence of its characters' code points, so that ids compare as Python   *)
(* strings do.  datacoverage is counted in units of 5e-7 (CovOne is 1.0),   *)
(* so that the tolerance 1e-6 is the whole number Tol.                      *)

CovOne == 2000000
Tol    == 2

\* "GHCND:USW"
UswPrefix == <<71, 72, 67, 78, 68, 58, 85, 83, 87>>

StartsWith(s, p) == Len(s) >= Len(p) /\ SubSeq(s, 1, Len(p)) = p

RECURSIVE StrLT(_, _)
StrLT(a, b) ==
    IF b = <<>> THEN FALSE
    ELSE IF a = <<>> THEN TRUE
    ELSE IF Head(a) # Head(b) THEN Head(a) < Head(b)
    ELSE StrLT(Tail(a), Tail(b))

span_days(s) ==
    IF s.mindate = NaT \/ s.maxdate = NaT THEN -1
    ELSE ToOrdinal(s.maxdate) - ToOrdinal(s.mindate)

is_usw(s) == IF StartsWith(s.id, UswPrefix) THEN 1 ELSE 0

\* sort_values(by=[is_usw, span_days, mindate, id],
\*             ascending=[False, False, True, True]); a NaT mindate sorts last
MindateBefore(a, b) ==
    IF a.mindate = NaT THEN FALSE
    ELSE IF b.mindate = NaT THEN TRUE
    ELSE DateLT(a.mindate, b.mindate)

\* mutant of SortsBefore: the id descending
SortsBefore_IdDesc(a, b) ==
    IF is_usw(a) # is_usw(b) THEN is_usw(a) > is_usw(b)
    ELSE IF span_days(a) # span_days(b) THEN span_days(a) > span_days(b)
    ELSE IF a.mindate # b.mindate THEN MindateBefore(a, b)
    ELSE StrLT(b.id, a.id)

SortsBefore(a, b) ==
    IF is_usw(a) # is_usw(b) THEN is_usw(a) > is_usw(b)
    ELSE IF span_days(a) # span_days(b) THEN span_days(a) > span_days(b)
    ELSE IF a.mindate # b.mindate THEN MindateBefore(a, b)
    ELSE StrLT(a.id, b.id)

\* _select: the first row of the sorted frame, as a set of at most one row
Select(df) ==
    IF df = {} THEN {}
    ELSE {CHOOSE s \in df : \A t \in df \ {s} : SortsBefore(s, t)}

\* cand: the USW rows when prefer_usw is set and there is one, else all rows
Cand(st, prefer_usw) ==
    IF prefer_usw /\ (\E s \in st : is_usw(s) = 1)
    THEN {s \in st : is_usw(s) = 1}
    ELSE st

\* mutant of Cov1: only a coverage of exactly 1.0 counts
Cov1_Exact(cand) == {s \in cand : s.datacoverage = CovOne}

Cov1(cand) == {s \in cand : s.datacoverage # NaN /\ s.datacoverage >= CovOne - Tol}

\* cand["datacoverage"].max(skipna=True); NaN when every value is NaN
MaxCov(cand) ==
    IF \A s \in cand : s.datacoverage = NaN THEN NaN
    ELSE CHOOSE c \in {s.datacoverage : s \in cand} :
             c # NaN /\ \A s \in cand : s.datacoverage <= c

Best(cand) ==
    {s \in cand : /\ s.datacoverage # NaN
                  /\ s.datacoverage >= MaxCov(cand) - Tol
                  /\ s.datacoverage <= MaxCov(cand) + Tol}

pick_representative_station(st, prefer_usw) ==
    IF st = {} THEN st
    ELSE LET cand == Cand(st, prefer_usw)
         IN  IF Cov1(cand) # {} THEN Select(Cov1(cand))
             ELSE IF MaxCov(cand) = NaN THEN Select(cand)
             ELSE Select(Best(cand))

-----------------------------------------------------------------------------
(* req_json: one call.  rq.attempt is the loop variable, rq.nreq counts the *)
(* requests.get calls, rq.resps records the kind of response each attempt   *)
(* received, rq.last_exc is last_exc, rq.outcome is "return" or "raise"     *)
(* once the call has ended (rq.pc = "done"), rq.raised the exception raised.*)
(* An exception is a record [cls, at]: its class and the attempt that made  *)
(* it (at = 0: made after the loop).                                        *)

RETRY == 3

NoExc == [cls |-> "None", at |-> 0]

Exc(cls, at) == [cls |-> cls, at |-> at]

\* What one attempt can receive:
\*   "429"       status 429
\*   "5xx"       status 500, 502, 503 or 504
\*   "4xx"       any other error status: r.raise_for_status() raises HTTPError
\*   "transport" requests.get raises Timeout or ConnectionError
\*   "empty"     status 204 or a blank body
\*   "badjson"   r.json() raises ValueError
\*   "ok"        a JSON body
RespKinds == {"429", "5xx", "4xx", "transport", "empty", "badjson", "ok"}

ReqStart ==
    [pc |-> "loop", attempt |-> 1, nreq |-> 0, resps |-> <<>>,
     last_exc |-> NoExc, outcome |-> "none", raised |-> NoExc]

\* requests.get is called: the attempt receives a response of kind k
ReqSent(k) == [rq EXCEPT !.nreq = @ + 1, !.resps = Append(@, k)]

\* mutant of ReqContinue: a retry that does not use up an attempt
ReqContinue_NoAdvance(r) == r

\* backoff_sleep(attempt); continue
ReqContinue(r) == [r EXCEPT !.attempt = @ + 1]

ReqRaise(r, e) == [r EXCEPT !.pc = "done", !.outcome = "raise", !.raised = e]

ReqReturn(r) == [r EXCEPT !.pc = "done", !.outcome = "return"]

InLoop == rq.pc = "loop" /\ rq.attempt <= RETRY

\* a call of req_json touches nothing else
ReqFrame == UNCHANGED <<call, ret, args, pc, ridx, stations, sel, todo,
                        per_year_paths, all_daily_parts, daily_df, agg, parts,
                        outputs, log, hist>>

\* lines 64-65
Req429 ==
    /\ InLoop
    /\ rq' = ReqContinue(ReqSent("429"))
    /\ ReqFrame

\* lines 66-68
Req5xx ==
    /\ InLoop
    /\ rq' = ReqContinue([ReqSent("5xx") EXCEPT
                             !.last_exc = Exc("HTTPError", rq.attempt)])
    /\ ReqFrame

\* lines 79-83: the handler of RequestException and its subclasses
ReqExcept(r, e) ==
    LET r1 == [r EXCEPT !.last_exc = e]
    IN  IF r.attempt < RETRY THEN ReqContinue(r1) ELSE ReqRaise(r1, e)

\* line 69, then lines 79-83
Req4xx ==
    /\ InLoop
    /\ rq' = ReqExcept(ReqSent("4xx"), Exc("HTTPError", rq.attempt))
    /\ ReqFrame

\* line 63 raises, then lines 79-83
ReqTransport ==
    /\ InLoop
    /\ rq' = ReqExcept(ReqSent("transport"), Exc("ConnectionError", rq.attempt))
    /\ ReqFrame

\* lines 70-71
ReqEmpty ==
    /\ InLoop
    /\ rq' = ReqReturn(ReqSent("empty"))
    /\ ReqFrame

\* lines 72-78: ValueError of r.json(); on the last attempt it is re-raised
\* (through lines 79-83 when it is requests' JSONDecodeError, through lines
\* 84-85 otherwise: the same exception reaches the caller either way)
ReqBadJson ==
    /\ InLoop
    /\ LET e  == Exc("JSONDecodeError", rq.attempt)
           r1 == [ReqSent("badjson") EXCEPT !.last_exc = e]
       IN  rq' = IF rq.attempt < RETRY THEN ReqContinue(r1) ELSE ReqRaise(r1, e)
    /\ ReqFrame

\* line 73
ReqOk ==
    /\ InLoop
    /\ rq' = ReqReturn(ReqSent("ok"))
    /\ ReqFrame

\* lines 86-88: the loop ran out
ReqLoopExit ==
    /\ rq.pc = "loop" /\ rq.attempt > RETRY
    /\ rq' = IF rq.last_exc # NoExc THEN ReqRaise(rq, rq.last_exc)
             ELSE ReqRaise(rq, Exc("RuntimeError", 0))
    /\ ReqFrame

ReqNext ==
    \/ Req429 \/ Req5xx \/ Req4xx \/ ReqTransport
    \/ ReqEmpty \/ ReqBadJson \/ ReqOk \/ ReqLoopExit

-----------------------------------------------------------------------------
(* daily_to_period_station                                                  *)
(* daily_df is a sequence of rows [date, datatype, value]; the table        *)
(* returned is a sequence of rows [period_start, vals], vals mapping each   *)
(* column present to its cell.  A cell is [num, den]: the value num/den     *)
(* (den = 1 for a sum, the number of values for a mean), den = 0 for an     *)
(* empty cell (NaN).                                                        *)

\* to_period("W-MON").start_time.normalize(): pandas' W-MON is the weekly
\* frequency whose periods END on Monday, so a period runs from a Tuesday to
\* the next Monday and start_time is that Tuesday
WeekStart(dt) == MinusDays(dt, (Weekday(dt) + 6) % 7)

\* to_period("M").start_time.normalize()
MonthStart(dt) == Date(dt.y, dt.m, 1)

PeriodStart(dt, freq) == IF freq = "weekly" THEN WeekStart(dt) ELSE MonthStart(dt)

sum_vars == {"PRCP", "SNOW"}

Range(sq) == {sq[i] : i \in DOMAIN sq}

\* the rows of d of one datatype in one period
RECURSIVE CellRows(_, _, _, _)
CellRows(d, v, p, freq) ==
    IF d = <<>> THEN <<>>
    ELSE LET r == Head(d)
             rest == CellRows(Tail(d), v, p, freq)
         IN  IF r.datatype = v /\ PeriodStart(r.date, freq) = p
             THEN <<r>> \o rest ELSE rest

RECURSIVE SumValues(_)
SumValues(rows) ==
    IF rows = <<>> THEN 0 ELSE Head(rows).value + SumValues(Tail(rows))

\* mutant of Cell: every variable is reduced by the mean
Cell_MeanOfAll(d, v, p, freq) ==
    LET rows == CellRows(d, v, p, freq)
    IN  IF rows = <<>> THEN [num |-> 0, den |-> 0]
        ELSE [num |-> SumValues(rows), den |-> Len(rows)]

\* groupby(["period_start", "datatype"])["value"].sum() or .mean(), pivoted
Cell(d, v, p, freq) ==
    LET rows == CellRows(d, v, p, freq)
    IN  IF rows = <<>> THEN [num |-> 0, den |-> 0]
        ELSE IF v \in sum_vars THEN [num |-> SumValues(rows), den |-> 1]
        ELSE [num |-> SumValues(rows), den |-> Len(rows)]

\* the index of a pivot, and of an outer join: the distinct keys, ascending
RECURSIVE SortDates(_)
SortDates(S) ==
    IF S = {} THEN <<>>
    ELSE LET m == CHOOSE x \in S : \A z \in S : DateLE(x, z)
         IN  <<m>> \o SortDates(S \ {m})

\* d: the rows of daily_df whose datatype is wanted (line 195)
Wanted(df, wanted_vars) == SelectSeq(df, LAMBDA r : r.datatype \in wanted_vars)

\* mutant of daily_to_period_station: the two pivots are joined on the
\* periods they share
daily_to_period_station_InnerJoin(df, wanted_vars, freq) ==
    LET d       == Wanted(df, wanted_vars)
        sumRows == SelectSeq(d, LAMBDA r : r.datatype \in sum_vars)
        meanRows == SelectSeq(d, LAMBDA r : r.datatype \in wanted_vars \ sum_vars)
        sumKeys == {PeriodStart(r.date, freq) : r \in Range(sumRows)}
        meanKeys == {PeriodStart(r.date, freq) : r \in Range(meanRows)}
        keys    == IF sumRows = <<>> THEN meanKeys
                   ELSE IF meanRows = <<>> THEN sumKeys
                   ELSE sumKeys \cap meanKeys
        cols    == {r.datatype : r \in Range(d)}
        index   == SortDates(keys)
    IN  IF df = <<>> \/ d = <<>> THEN <<>>
        ELSE [i \in 1..Len(index) |->
                 [period_start |-> index[i],
                  vals |-> [v \in cols |-> Cell(d, v, index[i], freq)]]]

daily_to_period_station(df, wanted_vars, freq) ==
    LET d       == Wanted(df, wanted_vars)
        sumRows == SelectSeq(d, LAMBDA r : r.datatype \in sum_vars)
        meanRows == SelectSeq(d, LAMBDA r : r.datatype \in wanted_vars \ sum_vars)
        \* the index of wide: that of wide_mean, of wide_sum, or of their join
        keys    == {PeriodStart(r.date, freq) : r \in Range(sumRows)}
                      \cup {PeriodStart(r.date, freq) : r \in Range(meanRows)}
        cols    == {r.datatype : r \in Range(d)}
        index   == SortDates(keys)
    IN  IF df = <<>> \/ d = <<>> THEN <<>>
        ELSE [i \in 1..Len(index) |->
                 [period_start |-> index[i],
                  vals |-> [v \in cols |-> Cell(d, v, index[i], freq)]]]

-----------------------------------------------------------------------------
(* main: the region loop.                                                   *)
(* pc is the position in the body of "for fips in state_list":              *)
(*   "list"   before list_stations_for_state        (line 268)              *)
(*   "pick"   before pick_representative_station    (line 281)              *)
(*   "slices" in "for ys, ye in year_slices(...)"   (line 294)              *)
(*   "agg"    before daily_to_period_station        (line 326)              *)
(*   "end"    the body has ended, by continue or by reaching its last line  *)
(*   "done"   after the loop                        (line 343)              *)
(* hist observes the current region: one event per year slice visited, and  *)
(* how the body ended.                                                      *)

\* ids, as code points: "GHCND:USC1", "GHCND:USC2", "GHCND:USW1", "GHCND:USW2"
IdUSC1 == <<71, 72, 67, 78, 68, 58, 85, 83, 67, 49>>
IdUSC2 == <<71, 72, 67, 78, 68, 58, 85, 83, 67, 50>>
IdUSW1 == <<71, 72, 67, 78, 68, 58, 85, 83, 87, 49>>
IdUSW2 == <<71, 72, 67, 78, 68, 58, 85, 83, 87, 50>>

Station(id, cov, mind, maxd) ==
    [id |-> id, datacoverage |-> cov, mindate |-> mind, maxdate |-> maxd]

\* the longest run of year slices a listed station has
SliceYears == 3

state_list == <<"01", "02">>

\* --vars
wanted_vars == {"PRCP", "TAVG"}

\* What the station listing of a region can return when it is not empty.
\* Region 01: a full-coverage station whose range covers SliceYears years of
\* the bound, and a low-coverage one.  Region 02: a full-coverage station
\* whose range ends before the bound (no year slice), and a USW station
\* with one slice.
Listings(fips) ==
    IF fips = "01"
    THEN {{Station(IdUSC1, CovOne, Date(StartLimitYear - 1, 6, 1),
                   Date(StartLimitYear + SliceYears - 1, 3, 1)),
           Station(IdUSC2, CovOne \div 2, Date(StartLimitYear, 1, 1),
                   Date(StartLimitYear, 12, 31))}}
    ELSE {{Station(IdUSC2, CovOne, Date(StartLimitYear - 3, 1, 1),
                   Date(StartLimitYear - 1, 12, 31)),
           Station(IdUSW2, CovOne \div 2, Date(EndLimitYear, 2, 1),
                   Date(EndLimitYear, 3, 1))}}

\* part_path: parts/<id>_<year>.csv under the region's directory
part_path(f, id, year) == <<f, id, year>>

SlicePaths(f, st) ==
    {part_path(f, st.id, sl[1].y) : sl \in Range(year_slices(st.mindate, st.maxdate))}

PartPaths ==
    UNION {UNION {SlicePaths(state_list[i], st) : st \in UNION Listings(state_list[i])} :
           i \in DOMAIN state_list}

\* A CSV file is the sequence of its lines, the header first; <<>> is a file
\* that is absent (or has size 0).
Header == [date |-> NaT, datatype |-> "datatype", value |-> 0]

to_csv(df) == <<Header>> \o df

read_csv(file) == Tail(file)

already_done(path) == parts[path] # <<>>

Obs(dt, datatype, value) == [date |-> dt, datatype |-> datatype, value |-> value]

\* What the observation listing of one slice can return when it has rows:
\* rows of the requested datatypes, or rows whose datatype is none of
\* wanted_vars as main compares them.
FetchRows(ys, ye) ==
    {<<Obs(ys, "PRCP", 1), Obs(ye, "TAVG", 2)>>, <<Obs(ys, "SNWD", 4)>>}

\* What a part file left by an earlier run holds: nothing, or the header and
\* an observation of its year.
PriorFiles(path) ==
    {<<>>, to_csv(<<Obs(Date(path[3], 2, 20), "TAVG", 3)>>)}

RECURSIVE Concat(_)
Concat(dfs) == IF dfs = <<>> THEN <<>> ELSE Head(dfs) \o Concat(Tail(dfs))

fips == state_list[ridx]

NoHist == [events |-> <<>>, result |-> "running"]

Event(year, kind, rows) == [year |-> year, kind |-> kind, rows |-> rows]

Msg(tag, f, year) == [tag |-> tag, fips |-> f, year |-> year]

\* continue, or the end of the body
EndBody(result) ==
    /\ pc' = "end"
    /\ hist' = [hist EXCEPT !.result = result]

pureVars == <<call, ret, rq>>

\* lines 268-278
ListFailed ==
    /\ pc = "list"
    /\ log' = log \cup {Msg("WARN stations list failed", fips, 0)}
    /\ EndBody("list_failed")
    /\ UNCHANGED <<args, ridx, stations, sel, todo, per_year_paths,
                   all_daily_parts, daily_df, agg, parts, outputs>>
    /\ UNCHANGED pureVars

ListEmpty ==
    /\ pc = "list"
    /\ log' = log \cup {Msg("INFO No stations", fips, 0)}
    /\ EndBody("no_stations")
    /\ UNCHANGED <<args, ridx, stations, sel, todo, per_year_paths,
                   all_daily_parts, daily_df, agg, parts, outputs>>
    /\ UNCHANGED pureVars

ListOk ==
    /\ pc = "list"
    /\ \E listing \in Listings(fips) : stations' = listing
    /\ outputs' = outputs \cup {<<fips, "stations_meta.csv">>}
    /\ pc' = "pick"
    /\ UNCHANGED <<args, ridx, sel, todo, per_year_paths, all_daily_parts,
                   daily_df, agg, parts, log, hist>>
    /\ UNCHANGED pureVars

\* lines 281-293, and the evaluation of year_slices(mind, maxd) of line 294
PickRep ==
    /\ pc = "pick"
    /\ LET rep == pick_representative_station(stations, args.prefer_usw)
       IN  IF rep = {}
           THEN /\ log' = log \cup {Msg("INFO No representative station", fips, 0)}
                /\ EndBody("no_rep")
                /\ UNCHANGED <<sel, todo, outputs>>
           ELSE /\ sel' = rep
                /\ outputs' = outputs \cup {<<fips, "selected_station.csv">>}
                /\ todo' = LET s == CHOOSE s \in rep : TRUE
                           IN  year_slices(s.mindate, s.maxdate)
                /\ pc' = "slices"
                /\ UNCHANGED <<log, hist>>
    /\ UNCHANGED <<args, ridx, stations, per_year_paths, all_daily_parts,
                   daily_df, agg, parts>>
    /\ UNCHANGED pureVars

\* the loop variables of one iteration of line 294
InSlices == pc = "slices" /\ todo # <<>>

ys == todo[1][1]
ye == todo[1][2]
year == ys.y
sel_id == (CHOOSE s \in sel : TRUE).id
path == part_path(fips, sel_id, year)

\* mutant of Visited: a failed fetch leaves the loop (break for continue)
Visited_BreakOnFailure(kind, rows) ==
    /\ todo' = IF kind \in {"http_error", "error"} THEN <<>> ELSE Tail(todo)
    /\ hist' = [hist EXCEPT !.events = Append(@, Event(year, kind, rows))]

Visited(kind, rows) ==
    /\ todo' = Tail(todo)
    /\ hist' = [hist EXCEPT !.events = Append(@, Event(year, kind, rows))]

\* lines 297-298
Resumes == args.resume /\ already_done(path)

SliceCached ==
    /\ InSlices
    /\ Resumes
    /\ per_year_paths' = Append(per_year_paths, path)
    /\ Visited("cached", read_csv(parts[path]))
    /\ UNCHANGED <<args, pc, ridx, stations, sel, all_daily_parts, daily_df,
                   agg, parts, outputs, log>>
    /\ UNCHANGED pureVars

\* lines 299-302: fetch_station_year raises requests.HTTPError (req_json
\* raises it for a 4xx status and after 5xx responses)
SliceHTTPError ==
    /\ InSlices
    /\ ~Resumes
    /\ Visited("http_error", <<>>)
    /\ UNCHANGED <<args, pc, ridx, stations, sel, per_year_paths,
                   all_daily_parts, daily_df, agg, parts, outputs, log>>
    /\ UNCHANGED pureVars

\* lines 303-305: any other Exception (ConnectionError, Timeout, ValueError,
\* RuntimeError)
SliceError ==
    /\ InSlices
    /\ ~Resumes
    /\ log' = log \cup {Msg("WARN fetch failed", fips, year)}
    /\ Visited("error", <<>>)
    /\ UNCHANGED <<args, pc, ridx, stations, sel, per_year_paths,
                   all_daily_parts, daily_df, agg, parts, outputs>>
    /\ UNCHANGED pureVars

\* lines 306-310: the slice has no rows
SliceEmpty ==
    /\ InSlices
    /\ ~Resumes
    /\ IF args.save_raw
       THEN /\ parts' = [parts EXCEPT ![path] = to_csv(<<>>)]
            /\ per_year_paths' = Append(per_year_paths, path)
       ELSE UNCHANGED <<parts, per_year_paths>>
    /\ Visited("empty", <<>>)
    /\ UNCHANGED <<args, pc, ridx, stations, sel, all_daily_parts, daily_df,
                   agg, outputs, log>>
    /\ UNCHANGED pureVars

\* lines 311-314
SliceRows ==
    /\ InSlices
    /\ ~Resumes
    /\ \E df \in FetchRows(ys, ye) :
          /\ IF args.save_raw
             THEN /\ parts' = [parts EXCEPT ![path] = to_csv(df)]
                  /\ per_year_paths' = Append(per_year_paths, path)
             ELSE UNCHANGED <<parts, per_year_paths>>
          /\ all_daily_parts' = Append(all_daily_parts, df)
          /\ Visited("rows", df)
    /\ UNCHANGED <<args, pc, ridx, stations, sel, daily_df, agg, outputs, log>>
    /\ UNCHANGED pureVars

\* lines 317-320
Merged ==
    IF args.resume /\ args.save_raw /\ per_year_paths # <<>>
    THEN Concat([i \in DOMAIN per_year_paths |-> read_csv(parts[per_year_paths[i]])])
    ELSE Concat(all_daily_parts)

\* lines 317-323, after the last slice
MergeDaily ==
    /\ pc = "slices" /\ todo = <<>>
    /\ daily_df' = Merged
    /\ IF Merged = <<>>
       THEN /\ log' = log \cup {Msg("INFO No daily data", fips, 0)}
            /\ EndBody("no_daily")
       ELSE /\ pc' = "agg"
            /\ UNCHANGED <<log, hist>>
    /\ UNCHANGED <<args, ridx, stations, sel, todo, per_year_paths,
                   all_daily_parts, agg, parts, outputs>>
    /\ UNCHANGED pureVars

out_name == IF args.freq = "weekly" THEN "weekly_selected_station.csv"
            ELSE "monthly_selected_station.csv"

\* mutant of Aggregate: the table is written before it is tested for empty
Aggregate_WriteFirst ==
    /\ pc = "agg"
    /\ LET a == daily_to_period_station(daily_df, wanted_vars, args.freq)
       IN  /\ agg' = a
           /\ outputs' = outputs \cup {<<fips, out_name>>}
           /\ IF a = <<>>
              THEN /\ log' = log \cup {Msg("INFO aggregation empty", fips, 0)}
                   /\ EndBody("agg_empty")
              ELSE /\ EndBody("written")
                   /\ UNCHANGED log
    /\ UNCHANGED <<args, ridx, stations, sel, todo, per_year_paths,
                   all_daily_parts, daily_df, parts>>
    /\ UNCHANGED pureVars

\* lines 326-341
Aggregate ==
    /\ pc = "agg"
    /\ LET a == daily_to_period_station(daily_df, wanted_vars, args.freq)
       IN  /\ agg' = a
           /\ IF a = <<>>
              THEN /\ log' = log \cup {Msg("INFO aggregation empty", fips, 0)}
                   /\ EndBody("agg_empty")
                   /\ UNCHANGED outputs
              ELSE /\ outputs' = outputs \cup {<<fips, out_name>>}
                   /\ EndBody("written")
                   /\ UNCHANGED log
    /\ UNCHANGED <<args, ridx, stations, sel, todo, per_year_paths,
                   all_daily_parts, daily_df, parts>>
    /\ UNCHANGED pureVars

\* mutant of NextRegion: a region that wrote no period file ends the run
NextRegion_StopOnSkip ==
    /\ pc = "end"
    /\ ridx' = ridx + 1
    /\ pc' = IF ridx < Len(state_list) /\ hist.result = "written"
             THEN "list" ELSE "done"
    /\ stations' = {} /\ sel' = {} /\ todo' = <<>>
    /\ per_year_paths' = <<>> /\ all_daily_parts' = <<>>
    /\ daily_df' = <<>> /\ agg' = <<>>
    /\ hist' = NoHist
    /\ UNCHANGED <<args, parts, outputs, log>>
    /\ UNCHANGED pureVars

\* line 260: the next region, with the body's locals unset
NextRegion ==
    /\ pc = "end"
    /\ ridx' = ridx + 1
    /\ pc' = IF ridx < Len(state_list) THEN "list" ELSE "done"
    /\ stations' = {} /\ sel' = {} /\ todo' = <<>>
    /\ per_year_paths' = <<>> /\ all_daily_parts' = <<>>
    /\ daily_df' = <<>> /\ agg' = <<>>
    /\ hist' = NoHist
    /\ UNCHANGED <<args, parts, outputs, log>>
    /\ UNCHANGED pureVars

Args == [resume : BOOLEAN, save_raw : BOOLEAN, prefer_usw : BOOLEAN,
         freq : {"weekly", "monthly"}]

MainIdle ==
    /\ args = [resume |-> FALSE, save_raw |-> FALSE, prefer_usw |-> FALSE,
               freq |-> "weekly"]
    /\ pc = "done" /\ ridx = 1
    /\ stations = {} /\ sel = {} /\ todo = <<>>
    /\ per_year_paths = <<>> /\ all_daily_parts = <<>>
    /\ daily_df = <<>> /\ agg = <<>>
    /\ parts = [p \in PartPaths |-> <<>>]
    /\ outputs = {} /\ log = {} /\ hist = NoHist

PureIdle == call = [fn |-> "none"] /\ ret = <<>> /\ rq = [pc |-> "idle"]

\* main starts: the output directory may hold the part files of an earlier
\* run (a run without --resume never reads them)
MainInit ==
    /\ PureIdle
    /\ args \in Args
    /\ pc = "list" /\ ridx = 1
    /\ stations = {} /\ sel = {} /\ todo = <<>>
    /\ per_year_paths = <<>> /\ all_daily_parts = <<>>
    /\ daily_df = <<>> /\ agg = <<>>
    /\ parts \in [PartPaths -> UNION {PriorFiles(p) : p \in PartPaths}]
    /\ \A p \in PartPaths : parts[p] \in PriorFiles(p)
    /\ args.resume \/ \A p \in PartPaths : parts[p] = <<>>
    /\ outputs = {} /\ log = {} /\ hist = NoHist

MainNext ==
    \/ ListFailed \/ ListEmpty \/ ListOk \/ PickRep
    \/ SliceCached \/ SliceHTTPError \/ SliceError \/ SliceEmpty \/ SliceRows
    \/ MergeDaily \/ Aggregate \/ NextRegion

SpecMain == MainInit /\ [][MainNext]_vars

-----------------------------------------------------------------------------
(* Specifications of the pure functions and of req_json.                    *)

\* --- pick_representative_station over every pool of at most MaxPool
\* stations with distinct ids
MaxPool == 3

PickIds == {IdUSC1, IdUSC2, IdUSW1, IdUSW2}

\* NaN, 0.5, 0.5000005, 0.9999985, 0.9999995
PickCovs == {NaN, CovOne \div 2, CovOne \div 2 + 1, CovOne - 3, CovOne - 1}

\* (mindate, maxdate): no mindate; two ranges of 730 days that start a year
\* apart; a range of 365 days
PickRanges ==
    {<<NaT, Date(2003, 1, 1)>>,
     <<Date(2001, 1, 1), Date(2003, 1, 1)>>,
     <<Date(2002, 1, 1), Date(2004, 1, 1)>>,
     <<Date(2002, 1, 1), Date(2003, 1, 1)>>}

PickInit ==
    /\ MainIdle
    /\ rq = [pc |-> "idle"]
    /\ \E S \in SUBSET PickIds :
          /\ Cardinality(S) <= MaxPool
          /\ \E f \in [S -> PickCovs \X PickRanges] :
             \E b \in BOOLEAN :
                call = [fn |-> "pick",
                        stations |-> {Station(id, f[id][1], f[id][2][1], f[id][2][2]) :
                                         id \in S},
                        prefer_usw |-> b]
    /\ ret = <<>>

CallPick ==
    /\ call.fn = "pick" /\ ret = <<>>
    /\ ret' = <<pick_representative_station(call.stations, call.prefer_usw)>>
    /\ UNCHANGED <<call, rq>>
    /\ UNCHANGED mainVars

SpecPick == PickInit /\ [][CallPick]_vars

\* --- year_slices over dates up to YearMargin years outside the bound
YearMargin == 2

SliceDates ==
    {NaT} \cup
    {Date(y, md[1], md[2]) :
        y \in (StartLimitYear - YearMargin)..(EndLimitYear + YearMargin),
        md \in {<<1, 1>>, <<2, 28>>, <<7, 15>>, <<12, 31>>}}

SlicesInit ==
    /\ MainIdle
    /\ rq = [pc |-> "idle"]
    /\ call \in [fn : {"year_slices"}, mind : SliceDates, maxd : SliceDates]
    /\ ret = <<>>

CallYearSlices ==
    /\ call.fn = "year_slices" /\ ret = <<>>
    /\ ret' = <<year_slices(call.mind, call.maxd)>>
    /\ UNCHANGED <<call, rq>>
    /\ UNCHANGED mainVars

SpecSlices == SlicesInit /\ [][CallYearSlices]_vars

\* --- daily_to_period_station over every table of at most MaxRows rows
MaxRows == 2

\* Monday 2024-02-26 to Monday 2024-03-04: every weekday, the leap day and
\* a month boundary
ObsDates ==
    {Date(2024, 2, d) : d \in 26..29} \cup {Date(2024, 3, d) : d \in 1..4}

ObsRows == [date : ObsDates, datatype : {"PRCP", "TAVG", "SNWD"}, value : {1, 2}]

PeriodInit ==
    /\ MainIdle
    /\ rq = [pc |-> "idle"]
    /\ \E n \in 0..MaxRows :
       \E df \in [1..n -> ObsRows] :
       \E freq \in {"weekly", "monthly"} :
          call = [fn |-> "daily_to_period", daily_df |-> df, freq |-> freq]
    /\ ret = <<>>

CallDailyToPeriod ==
    /\ call.fn = "daily_to_period" /\ ret = <<>>
    /\ ret' = <<daily_to_period_station(call.daily_df, wanted_vars, call.freq)>>
    /\ UNCHANGED <<call, rq>>
    /\ UNCHANGED mainVars

SpecPeriod == PeriodInit /\ [][CallDailyToPeriod]_vars

\* --- one call of req_json
ReqInit ==
    /\ MainIdle
    /\ call = [fn |-> "none"] /\ ret = <<>>
    /\ rq = ReqStart

SpecReq == ReqInit /\ [][ReqNext]_vars

-----------------------------------------------------------------------------
(* Properties.                                                              *)

Picked == call.fn = "pick" /\ ret # <<>>

\* coverage within 1e-6 of 1.0
NearFull(s) == s.datacoverage # NaN /\ s.datacoverage >= CovOne - Tol

\* the stations the selection is made among: the USW stations when
\* prefer_usw is set and the pool has one, else the whole pool
C1_Candidates ==
    IF call.prefer_usw /\ (\E s \in call.stations : StartsWith(s.id, UswPrefix))
    THEN {s \in call.stations : StartsWith(s.id, UswPrefix)}
    ELSE call.stations

\* C1 as stated: for either value of prefer_usw, when some station of the
\* pool has datacoverage >= 1 - 1e-6, the station returned has
\* datacoverage >= 1 - 1e-6.
C1_PoolNearFullWins ==
    (/\ Picked
     /\ \A s \in call.stations : s.datacoverage # NaN
     /\ \E s \in call.stations : NearFull(s))
        => (ret[1] # {} /\ \A r \in ret[1] : NearFull(r))

\* C1 (amended): when some station among the candidates (the USW stations
\* when prefer_usw is set and the pool has one, else the whole pool) has
\* datacoverage >= 1 - 1e-6, the station returned has datacoverage
\* >= 1 - 1e-6; a lower-coverage candidate is never returned.
C1_CandidateNearFullWins ==
    (Picked /\ \E s \in C1_Candidates : NearFull(s))
        => (ret[1] # {} /\ \A r \in ret[1] : NearFull(r))

\* a near-full candidate wins against a lower-coverage candidate that has a
\* longer span, with prefer_usw set and a non-USW station in the pool
C1_Witness ==
    /\ Picked /\ call.prefer_usw
    /\ \E s \in call.stations : ~StartsWith(s.id, UswPrefix)
    /\ \E s, t \in C1_Candidates :
          /\ NearFull(s) /\ ~NearFull(t) /\ t.datacoverage # NaN
          /\ span_days(t) > span_days(s)
          /\ s \in ret[1]

C5_Tied(a, b) ==
    /\ a.datacoverage = b.datacoverage
    /\ is_usw(a) = is_usw(b)
    /\ span_days(a) = span_days(b)

\* C5 as stated: of two stations of the pool with equal coverage, equal USW
\* flag and equal span_days, the one with the larger id is never returned,
\* whatever their mindates.
C5_SmallerIdWins ==
    Picked => \A a, b \in call.stations :
                 (C5_Tied(a, b) /\ a.datacoverage # NaN /\ StrLT(a.id, b.id))
                     => b \notin ret[1]

\* C5 (amended): of two stations of the pool with equal coverage, equal USW
\* flag, equal span_days and equal mindate, the one with the larger id is
\* never returned.
C5_SmallerIdWinsOnEqualMindate ==
    Picked => \A a, b \in call.stations :
                 (C5_Tied(a, b) /\ a.mindate = b.mindate /\ StrLT(a.id, b.id))
                     => b \notin ret[1]

\* the winner has a rival that differs from it in the id alone
C5_Witness ==
    /\ Picked
    /\ \E a, b \in call.stations :
          /\ C5_Tied(a, b) /\ a.mindate = b.mindate /\ a.mindate # NaT
          /\ StrLT(a.id, b.id)
          /\ a \in ret[1]

Sliced == call.fn = "year_slices" /\ ret # <<>>

C9_Start == DateMax(call.mind, start_limit)
C9_End   == DateMin(call.maxd, end_limit)

C9_NoRange ==
    \/ call.mind = NaT \/ call.maxd = NaT
    \/ DateLT(call.maxd, call.mind)
    \/ DateLT(C9_End, C9_Start)

\* C9: year_slices(mind, maxd) is the calendar-year partition of
\* [mind, maxd] cut to [2002-01-01, 2025-12-31]: one slice per year of the
\* cut range, years ascending, each slice within one year and within the
\* bound, a slice starting the day after the one before it ends, the first
\* starting at the cut start and the last ending at the cut end; and the
\* empty sequence when the range is inverted or the cut range is empty.
C9_YearPartition ==
    Sliced =>
      LET res == ret[1]
          n   == Len(res)
      IN  IF C9_NoRange THEN res = <<>>
          ELSE /\ n = C9_End.y - C9_Start.y + 1
               /\ res[1][1] = C9_Start
               /\ res[n][2] = C9_End
               /\ \A i \in 1..n :
                     /\ res[i][1].y = C9_Start.y + i - 1
                     /\ res[i][2].y = res[i][1].y
                     /\ DateLE(res[i][1], res[i][2])
                     /\ DateLE(start_limit, res[i][1])
                     /\ DateLE(res[i][2], end_limit)
               /\ \A i \in 1..(n - 1) :
                     ToOrdinal(res[i + 1][1]) = ToOrdinal(res[i][2]) + 1

\* a range that starts before the bound and ends after it: 24 slices
C9_Witness ==
    /\ Sliced
    /\ call.mind # NaT /\ DateLT(call.mind, start_limit)
    /\ call.maxd # NaT /\ DateLT(end_limit, call.maxd)
    /\ Len(ret[1]) = EndLimitYear - StartLimitYear + 1

Aggregated == call.fn = "daily_to_period" /\ ret # <<>>

\* the Monday on or before a date
C4_Monday(dt) == MinusDays(dt, Weekday(dt))

\* C4: with freq = weekly every observation is in the bucket whose key is
\* the Monday on or before its date (its own date when it is a Monday).
C4_WeeklyBucketIsMonday ==
    (Aggregated /\ call.freq = "weekly") =>
        /\ \A i \in DOMAIN ret[1] : Weekday(ret[1][i].period_start) = 0
        /\ \A r \in Range(call.daily_df) :
              r.datatype \in wanted_vars =>
                 \E i \in DOMAIN ret[1] :
                    /\ ret[1][i].period_start = C4_Monday(r.date)
                    /\ ret[1][i].vals[r.datatype].den > 0

ReqFailures == {"429", "5xx", "4xx", "transport", "badjson"}

\* C3: when every one of the max_retry attempts fails, req_json raises the
\* failure of the last attempt.
C3_RaisesLastFailure ==
    (/\ rq.pc = "done"
     /\ Len(rq.resps) = RETRY
     /\ \A i \in 1..RETRY : rq.resps[i] \in ReqFailures)
        => (rq.outcome = "raise" /\ rq.raised.at = RETRY)

\* C10: a call of req_json issues at most max_retry requests, one per
\* iteration of its loop, and when it cannot go on it has returned or raised.
C10_BoundedAttempts ==
    /\ rq.pc \in {"loop", "done"} =>
          /\ rq.nreq <= RETRY
          /\ Len(rq.resps) = rq.nreq
    /\ rq.pc = "loop" => (rq.attempt = rq.nreq + 1 /\ ENABLED ReqNext)
    /\ rq.pc = "done" => (rq.outcome \in {"return", "raise"} /\ ~ENABLED ReqNext)

\* the call ends after max_retry requests, none of which succeeded
C10_Witness ==
    /\ rq.pc = "done" /\ rq.nreq = RETRY /\ rq.outcome = "raise"
    /\ \A i \in 1..RETRY : rq.resps[i] = "429"

\* the merge of the current region has run (lines 317-320)
MergeDone ==
    \/ pc = "agg"
    \/ pc = "end" /\ hist.result \in {"no_daily", "agg_empty", "written"}

RowsOfYear(df, y) == SelectSeq(df, LAMBDA r : r.date.y = y)

SliceFailed(e) == e.kind \in {"http_error", "error"}

Events == Range(hist.events)

\* C2: in a run with resume, a year slice whose part file an earlier run
\* left non-empty is not fetched, and the observations of that file are in
\* the observation set handed to aggregation, with or without save_raw.
C2_ResumedSlicesReachAggregation ==
    (args.resume /\ MergeDone) =>
        \A e \in Events :
            e.kind = "cached" => RowsOfYear(daily_df, e.year) = e.rows

\* C7: every failed fetch of a year slice is logged, whatever the failure.
C7_FailedFetchLogged ==
    \A e \in Events :
        SliceFailed(e) => Msg("WARN fetch failed", fips, e.year) \in log

SelSlices == LET s == CHOOSE s \in sel : TRUE
             IN  year_slices(s.mindate, s.maxdate)

\* C8: a failed fetch does not end the station's loop: the slices visited
\* and the slices still to visit are, in year order, all the year slices of
\* the station; every slice has been visited when the merge runs; and the
\* rows of every slice fetched with rows are the rows of its year in the
\* observation set handed to aggregation.
C8_FailedSliceDoesNotAbort ==
    (sel # {} /\ pc \in {"slices", "agg", "end"}) =>
        /\ [i \in DOMAIN hist.events |-> hist.events[i].year]
              \o [i \in DOMAIN todo |-> todo[i][1].y]
           = [i \in DOMAIN SelSlices |-> SelSlices[i][1].y]
        /\ MergeDone =>
              /\ todo = <<>>
              /\ \A e \in Events :
                    e.kind = "rows" => RowsOfYear(daily_df, e.year) = e.rows

\* a slice failed, a later slice was fetched with rows, and the merge ran
C8_Witness ==
    /\ MergeDone
    /\ \E i, j \in DOMAIN hist.events :
          /\ i < j
          /\ SliceFailed(hist.events[i])
          /\ hist.events[j].kind = "rows"
          /\ RowsOfYear(daily_df, hist.events[j].year) # <<>>

Written(name) == <<fips, name>> \in outputs

PeriodFiles == {"weekly_selected_station.csv", "monthly_selected_station.csv"}

\* C6 as stated: a region whose body has ended has an output file of this
\* run only if its whole pipeline succeeded: listing, selection, the fetch
\* of every year slice, and aggregation.
C6_OutputOnlyAfterFullSuccess ==
    (pc = "end" /\ \E name \in PeriodFiles \cup {"stations_meta.csv", "selected_station.csv"} :
                      Written(name))
        => (hist.result = "written" /\ \A e \in Events : ~SliceFailed(e))

\* C6 (amended): the period-aggregate file of a region is written only when
\* the listing returned stations, a station was selected, every year slice
\* was visited (fetched, taken from the cache, or skipped after a failed
\* fetch) and the aggregation returned rows, and it is the file of the
\* requested frequency; stations_meta.csv is written once the listing has
\* returned stations and selected_station.csv once a station is selected,
\* whether or not a later step of the region fails or is skipped.
C6_OutputsFollowTheirStep ==
    pc # "done" =>
        /\ (\E name \in PeriodFiles : Written(name)) =>
              /\ pc = "end" /\ hist.result = "written"
              /\ stations # {} /\ sel # {}
              /\ todo = <<>> /\ Len(hist.events) = Len(SelSlices)
              /\ daily_df # <<>> /\ agg # <<>>
              /\ \A name \in PeriodFiles : Written(name) <=> name = out_name
        /\ Written("selected_station.csv") <=> sel # {}
        /\ Written("stations_meta.csv") <=> stations # {}
        /\ sel # {} => stations # {}

\* the period file of a region is written although one of its slices failed
C6_Witness ==
    /\ pc = "end" /\ hist.result = "written"
    /\ Written(out_name)
    /\ \E e \in Events : SliceFailed(e)

\* how the body of a region ends without a period file, by case of C11
C11_Skips == {"no_stations", "no_rep", "no_daily", "agg_empty"}

C11_SkipTags == {"INFO No stations", "INFO No representative station",
                 "INFO No daily data", "INFO aggregation empty"}

\* region f was skipped in this run: its message is in the log
C11_Skipped(f) == \E tag \in C11_SkipTags : Msg(tag, f, 0) \in log

C11_NoPeriodFile ==
    \A i \in DOMAIN state_list :
        C11_Skipped(state_list[i]) =>
            \A name \in PeriodFiles : <<state_list[i], name>> \notin outputs

C11_Continues ==
    (pc = "end" /\ hist.result \in C11_Skips) =>
        /\ ridx' = ridx + 1
        /\ pc' = IF ridx < Len(state_list) THEN "list" ELSE "done"
        /\ outputs' = outputs

\* C11: when a region has no stations, no representative station, no daily
\* data or an empty aggregation, no period-aggregate file of that region is
\* written in the run, the run goes on, and the step that follows starts the
\* next region of the list (or ends the loop after the last one).
C11_SkippedRegionContinues ==
    /\ [](C11_NoPeriodFile /\ (pc = "end" => ENABLED NextRegion))
    /\ [][C11_Continues]_vars

\* the first region was skipped for an empty aggregation and the second
\* region has been processed to its period file
C11_Witness ==
    /\ Msg("INFO aggregation empty", state_list[1], 0) \in log
    /\ \A name \in PeriodFiles : <<state_list[1], name>> \notin outputs
    /\ ridx = 2 /\ pc = "end" /\ hist.result = "written"

\* a date falls in the bucket that starts at p: the seven days from p, or
\* the calendar month of p
InBucket(dt, p, freq) ==
    IF freq = "weekly" THEN ToOrdinal(dt) - ToOrdinal(p) \in 0..6
    ELSE dt.y = p.y /\ dt.m = p.m

\* the daily observations of variable v whose date falls in the bucket of p
BucketObs(v, p) ==
    {k \in DOMAIN call.daily_df :
        /\ call.daily_df[k].datatype = v
        /\ InBucket(call.daily_df[k].date, p, call.freq)}

RECURSIVE SumObs(_)
SumObs(S) ==
    IF S = {} THEN 0
    ELSE LET k == CHOOSE x \in S : TRUE
         IN  call.daily_df[k].value + SumObs(S \ {k})

\* C12: in every bucket of the returned table, a variable of {PRCP, SNOW}
\* holds the sum of its daily values of the bucket, and every other requested
\* variable holds their mean, the sum divided by the count.
C12_SumOrMeanPerBucket ==
    Aggregated =>
        \A i \in DOMAIN ret[1] :
        \A v \in DOMAIN ret[1][i].vals :
            LET B == BucketObs(v, ret[1][i].period_start)
                c == ret[1][i].vals[v]
            IN  B # {} =>
                    IF v \in {"PRCP", "SNOW"}
                    THEN c.den = 1 /\ c.num = SumObs(B)
                    ELSE c.den > 0 /\ c.num * Cardinality(B) = SumObs(B) * c.den

\* a bucket with two unequal temperatures, or with two precipitation values
C12_Witness ==
    /\ Aggregated
    /\ \E i \in DOMAIN ret[1] :
          LET p == ret[1][i].period_start
              c == ret[1][i].vals
          IN  \/ /\ Cardinality(BucketObs("TAVG", p)) = 2
                 /\ "TAVG" \in DOMAIN c /\ c["TAVG"] = [num |-> 3, den |-> 2]
              \/ /\ Cardinality(BucketObs("PRCP", p)) = 2
                 /\ "PRCP" \in DOMAIN c /\ c["PRCP"] = [num |-> 3, den |-> 1]

\* the observations of the requested variables
WantedObs == {k \in DOMAIN call.daily_df : call.daily_df[k].datatype \in wanted_vars}

\* C13: the returned table has one row for every period in which a requested
\* variable was observed and no other row, no two rows have the same period
\* start, and a variable without observations in the period of a row is left
\* empty in that row.
C13_OneRowPerPeriod ==
    Aggregated =>
        LET t == ret[1]
        IN  /\ \A i, j \in DOMAIN t :
                  i # j => t[i].period_start # t[j].period_start
            /\ \A k \in WantedObs :
                  Cardinality({i \in DOMAIN t :
                      InBucket(call.daily_df[k].date, t[i].period_start,
                               call.freq)}) = 1
            /\ \A i \in DOMAIN t :
                  /\ \E k \in WantedObs :
                        InBucket(call.daily_df[k].date, t[i].period_start,
                                 call.freq)
                  /\ DOMAIN t[i].vals =
                        {call.daily_df[k].datatype : k \in WantedObs}
                  /\ \A v \in DOMAIN t[i].vals :
                        (BucketObs(v, t[i].period_start) = {})
                            <=> (t[i].vals[v].den = 0)

\* two periods, the first with precipitation only and the second with
\* temperature only
C13_Witness ==
    /\ Aggregated
    /\ Len(ret[1]) = 2
    /\ DOMAIN ret[1][1].vals = {"PRCP", "TAVG"}
    /\ ret[1][1].vals["PRCP"].den = 1 /\ ret[1][1].vals["TAVG"].den = 0
    /\ ret[1][2].vals["PRCP"].den = 0 /\ ret[1][2].vals["TAVG"].den = 1

\* the candidates that pass the coverage criterion when prefer_usw is not
\* set: those within 1e-6 of full coverage if there is one, else those within
\* 1e-6 of the maximum coverage
C14_Passing ==
    IF \E s \in call.stations : NearFull(s)
    THEN {s \in call.stations : NearFull(s)}
    ELSE {s \in call.stations :
             \A t \in call.stations : s.datacoverage >= t.datacoverage - Tol}

\* the order of the docstring: longest span, then earliest mindate, then id
C14_Before(a, b) ==
    \/ span_days(a) > span_days(b)
    \/ span_days(a) = span_days(b) /\ DateLT(a.mindate, b.mindate)
    \/ span_days(a) = span_days(b) /\ a.mindate = b.mindate /\ StrLT(a.id, b.id)

\* C14: when prefer_usw is not set (and every station has a coverage and a
\* mindate), the station returned is the one of the candidates passing the
\* coverage criterion with the longest span_days, then the earliest mindate,
\* then the smallest id; being a USW station plays no part.
C14_SpanFirstWithoutPreferUsw ==
    (/\ Picked /\ ~call.prefer_usw
     /\ \A s \in call.stations : s.datacoverage # NaN /\ s.mindate # NaT)
        => \A r \in ret[1] : \A s \in C14_Passing \ {r} : C14_Before(r, s)

-----------------------------------------------------------------------------
(* merge.py: the period files of the regions merged into one table.         *)
(* A period file is [exists, readable, label, cols, rows]: label is the     *)
(* name of its first column, cols the names of its variable columns, rows   *)
(* its rows [period_start, vals]. indir maps a region to its two files.     *)
(* A missing cell (pd.NA) is NaN.                                           *)

\* the first entries of ALL_STATE_FIPS_50; two-digit strings compare as
\* their positions in this ascending list
ALL_STATE_FIPS_50 == <<"01", "02", "04", "05">>

FIPS_TO_STATE(f) ==
    CASE f = "01" -> "Alabama" [] f = "02" -> "Alaska"
      [] f = "04" -> "Arizona" [] f = "05" -> "Arkansas"
      [] OTHER -> f

NoFile == [exists |-> FALSE, readable |-> FALSE, label |-> "", cols |-> {},
           rows |-> <<>>]

\* a file pd.read_csv raises on
Garbage == [exists |-> TRUE, readable |-> FALSE, label |-> "", cols |-> {},
            rows |-> <<>>]

PeriodFile(label, cols, rows) ==
    [exists |-> TRUE, readable |-> TRUE, label |-> label, cols |-> cols,
     rows |-> rows]

\* (pd.DataFrame(), ""), with what was printed on the way
EmptyRead(warn) == [df |-> <<>>, cols |-> {}, freq |-> "", warn |-> warn]

\* mutant of PickPath: the weekly file is looked for first
PickPath_WeeklyFirst(dir) ==
    IF dir.weekly.exists THEN <<dir.weekly, "weekly">>
    ELSE IF dir.monthly.exists THEN <<dir.monthly, "monthly">>
    ELSE <<NoFile, "">>

\* line 85: the file to read and its frequency
PickPath(dir) ==
    IF dir.monthly.exists THEN <<dir.monthly, "monthly">>
    ELSE IF dir.weekly.exists THEN <<dir.weekly, "weekly">>
    ELSE <<NoFile, "">>

label_col(freq) == IF freq = "monthly" THEN "month_start" ELSE "week_start"

\* the frame of one region, its variable columns and its frequency
read_one_state(indir, f) ==
    LET file == PickPath(indir[f])[1]
        freq == PickPath(indir[f])[2]
    IN  IF freq = "" THEN EmptyRead({})
        ELSE IF ~file.readable THEN EmptyRead({"WARN Failed to read"})
        ELSE IF file.rows = <<>> THEN EmptyRead({})
        ELSE IF file.label # label_col(freq) /\ label_col(freq) \notin file.cols
             THEN EmptyRead({IF freq = "monthly" THEN "WARN month_start missing"
                             ELSE "WARN week_start missing"})
        ELSE [df |-> [i \in DOMAIN file.rows |->
                        [period_start |-> file.rows[i].period_start,
                         frequency |-> freq,
                         fips |-> f,
                         state |-> FIPS_TO_STATE(f),
                         vals |-> file.rows[i].vals]],
              cols |-> file.cols,
              freq |-> freq,
              warn |-> {}]

FipsOrd(f) == CHOOSE i \in DOMAIN ALL_STATE_FIPS_50 : ALL_STATE_FIPS_50[i] = f

\* "monthly" < "weekly"
FreqLT(a, b) == a = "monthly" /\ b = "weekly"

\* the variable names of the period files, ascending
VarNames == <<"PRCP", "TAVG">>

VarOrd(v) == CHOOSE i \in DOMAIN VarNames : VarNames[i] = v

\* lines 173 and 175: by (period_start, frequency, fips) when the
\* frequencies are mixed, else by (period_start, fips)
WideLT(a, b, mixed) ==
    IF a.period_start # b.period_start THEN DateLT(a.period_start, b.period_start)
    ELSE IF mixed /\ a.frequency # b.frequency THEN FreqLT(a.frequency, b.frequency)
    ELSE FipsOrd(a.fips) < FipsOrd(b.fips)

\* lines 200 and 202: the same with the variable after period_start
LongLT(a, b, mixed) ==
    IF a.period_start # b.period_start THEN DateLT(a.period_start, b.period_start)
    ELSE IF a.variable # b.variable THEN VarOrd(a.variable) < VarOrd(b.variable)
    ELSE IF mixed /\ a.frequency # b.frequency THEN FreqLT(a.frequency, b.frequency)
    ELSE FipsOrd(a.fips) < FipsOrd(b.fips)

RowLT(a, b, mixed, long) ==
    IF long THEN LongLT(a, b, mixed) ELSE WideLT(a, b, mixed)

\* sort_values: the rows ascending, equal keys in their order
RECURSIVE SortRows(_, _, _)
SortRows(rows, mixed, long) ==
    IF rows = <<>> THEN <<>>
    ELSE LET m == CHOOSE i \in DOMAIN rows :
                      \A j \in DOMAIN rows \ {i} :
                          \/ RowLT(rows[i], rows[j], mixed, long)
                          \/ ~RowLT(rows[j], rows[i], mixed, long) /\ i < j
         IN  <<rows[m]>> \o SortRows([k \in 1..(Len(rows) - 1) |->
                                         IF k < m THEN rows[k] ELSE rows[k + 1]],
                                     mixed, long)

\* lines 126-135: the frames of the regions that have one, in the order of
\* the states
RECURSIVE Frames(_, _)
Frames(indir, states) ==
    IF states = <<>> THEN <<>>
    ELSE LET r == read_one_state(indir, Head(states))
         IN  (IF r.df = <<>> THEN <<>> ELSE <<r>>) \o Frames(indir, Tail(states))

\* mutant of MixedFreq: one frequency too many is allowed
MixedFreq_OffByOne(strict_same_freq, freqs_seen) ==
    strict_same_freq /\ Cardinality(freqs_seen) > 2

\* line 151
MixedFreq(strict_same_freq, freqs_seen) ==
    strict_same_freq /\ Cardinality(freqs_seen) > 1

\* lines 178-185, as file names in indir
out_path(outfile, freqs_seen) ==
    IF outfile = "GHCND_US_period_summary.csv"
    THEN IF freqs_seen = {"weekly"} THEN "GHCND_US_weekly_summary.csv"
         ELSE IF freqs_seen = {"monthly"} THEN "GHCND_US_monthly_summary.csv"
         ELSE outfile
    ELSE outfile

\* out_path.replace(".csv", "_long.csv")
long_path(name) ==
    CASE name = "GHCND_US_period_summary.csv" -> "GHCND_US_period_summary_long.csv"
      [] name = "GHCND_US_weekly_summary.csv" -> "GHCND_US_weekly_summary_long.csv"
      [] name = "GHCND_US_monthly_summary.csv" -> "GHCND_US_monthly_summary_long.csv"
      [] name = "us.csv" -> "us_long.csv"

\* lines 161-168: a frame with the columns var_cols, pd.NA where it has none
Normed(r, var_cols) ==
    [i \in DOMAIN r.df |->
        [r.df[i] EXCEPT !.vals =
            [v \in Range(var_cols) |->
                IF v \in r.cols THEN r.df[i].vals[v] ELSE NaN]]]

\* merged.melt: for each variable in turn, a row for every row of merged
Melt(merged, var_cols) ==
    Concat([n \in DOMAIN var_cols |->
              [i \in DOMAIN merged |->
                  [period_start |-> merged[i].period_start,
                   frequency |-> merged[i].frequency,
                   fips |-> merged[i].fips,
                   state |-> merged[i].state,
                   variable |-> var_cols[n],
                   value |-> merged[i].vals[var_cols[n]]]]])

MergeExit(status, out) == [status |-> status, files |-> {}, out |-> out]

\* main of merge.py: the exit status, the files written as <<name, table>>,
\* and what was printed
merge_main(a, indir) ==
    LET frames     == Frames(indir, a.states)
        missing    == SelectSeq(a.states,
                          LAMBDA f : read_one_state(indir, f).df = <<>>)
        union_vars == UNION {frames[i].cols : i \in DOMAIN frames}
        freqs_seen == {frames[i].freq : i \in DOMAIN frames}
        warns      == UNION {read_one_state(indir, f).warn : f \in Range(a.states)}
        info       == warns \cup (IF missing # <<>>
                                     THEN {"INFO Missing state files"} ELSE {})
        var_cols   == SelectSeq(VarNames, LAMBDA v : v \in union_vars)
        mixed      == Cardinality(freqs_seen) > 1
        concat     == Concat([i \in DOMAIN frames |-> Normed(frames[i], var_cols)])
        merged     == IF a.sort THEN SortRows(concat, mixed, FALSE) ELSE concat
        melted     == Melt(merged, var_cols)
        long_df    == IF a.sort THEN SortRows(melted, mixed, TRUE) ELSE melted
        name       == out_path(a.outfile, freqs_seen)
    IN  IF missing # <<>> /\ a.require_all THEN MergeExit(2, info)
        ELSE IF frames = <<>> THEN MergeExit(1, info \cup {"No inputs found"})
        ELSE IF MixedFreq(a.strict_same_freq, freqs_seen)
             THEN MergeExit(3, info \cup {"Mixed frequencies found"})
        ELSE [status |-> 0,
              files |-> {<<name, merged>>}
                           \cup (IF a.long THEN {<<long_path(name), long_df>>}
                                 ELSE {}),
              out |-> info \cup {"DONE wide"}
                           \cup (IF a.long THEN {"DONE long"} ELSE {})]

\* --- one run of merge.py
MergeRegions == 2

\* a monthly file of the first program: one month of two variables
MonthlyOk ==
    PeriodFile("month_start", {"PRCP", "TAVG"},
               <<[period_start |-> Date(2024, 3, 1),
                  vals |-> [v \in {"PRCP", "TAVG"} |-> IF v = "PRCP" THEN 5 ELSE 2]]>>)

\* a weekly file of the first program: two weeks of one variable
WeeklyOk ==
    PeriodFile("week_start", {"PRCP"},
               <<[period_start |-> Date(2024, 2, 27), vals |-> [v \in {"PRCP"} |-> 1]],
                 [period_start |-> Date(2024, 3, 5), vals |-> [v \in {"PRCP"} |-> 3]]>>)

\* absent; unreadable; a header without rows; a file with the columns of the
\* other frequency; a file as the first program writes it
MonthlyFiles ==
    {NoFile, Garbage, PeriodFile("month_start", {"PRCP"}, <<>>),
     [MonthlyOk EXCEPT !.label = "week_start"], MonthlyOk}

WeeklyFiles ==
    {NoFile, Garbage, PeriodFile("week_start", {"PRCP"}, <<>>),
     [WeeklyOk EXCEPT !.label = "month_start"], WeeklyOk}

MergeStates == SubSeq(ALL_STATE_FIPS_50, 1, MergeRegions)

MergeArgs ==
    [states : {MergeStates}, require_all : BOOLEAN, strict_same_freq : BOOLEAN,
     sort : BOOLEAN, long : BOOLEAN,
     outfile : {"GHCND_US_period_summary.csv", "us.csv"}]

MergeInit ==
    /\ MainIdle
    /\ rq = [pc |-> "idle"]
    /\ \E a \in MergeArgs :
       \E indir \in [Range(MergeStates) -> [monthly : MonthlyFiles,
                                            weekly : WeeklyFiles]] :
          call = [fn |-> "merge", a |-> a, indir |-> indir]
    /\ ret = <<>>

CallMerge ==
    /\ call.fn = "merge" /\ ret = <<>>
    /\ ret' = <<merge_main(call.a, call.indir)>>
    /\ UNCHANGED <<call, rq>>
    /\ UNCHANGED mainVars

SpecMerge == MergeInit /\ [][CallMerge]_vars

MergeRan == call.fn = "merge" /\ ret # <<>>

\* a file that yields rows when read as a file of the given frequency
Usable(file, freq) ==
    /\ file.exists /\ file.readable /\ file.rows # <<>>
    /\ file.label = (IF freq = "monthly" THEN "month_start" ELSE "week_start")

MonthlyRegion(f) == Usable(call.indir[f].monthly, "monthly")

WeeklyRegion(f) ==
    ~call.indir[f].monthly.exists /\ Usable(call.indir[f].weekly, "weekly")

MergedRegions == Range(call.a.states)

\* the merged table: the file written that is not the long one
WideTables == {t \in ret[1].files : \E n \in DOMAIN t[2] : "vals" \in DOMAIN t[2][n]}

\* the regions read include a weekly and a monthly one, and --require_all
\* does not end the run for a missing region
C15_Mixed ==
    /\ \E f \in MergedRegions : MonthlyRegion(f)
    /\ \E f \in MergedRegions : WeeklyRegion(f)
    /\ ~(call.a.require_all
            /\ \E f \in MergedRegions : ~MonthlyRegion(f) /\ ~WeeklyRegion(f))

\* C15: when the regions read include a weekly and a monthly region and no
\* earlier fatal condition applies, a run with strict_same_freq ends with
\* the mixed-frequency error and status 3 and writes no file; a run without
\* it ends with status 0 and writes one merged table that holds the rows of
\* every region read, with both 'weekly' and 'monthly' in its frequency
\* column.
C15_MixedFrequencies ==
    (MergeRan /\ C15_Mixed) =>
        IF call.a.strict_same_freq
        THEN /\ ret[1].status = 3
             /\ ret[1].files = {}
             /\ "Mixed frequencies found" \in ret[1].out
        ELSE /\ ret[1].status = 0
             /\ Cardinality(WideTables) = 1
             /\ \A t \in WideTables :
                   /\ {t[2][n].frequency : n \in DOMAIN t[2]} = {"weekly", "monthly"}
                   /\ {t[2][n].fips : n \in DOMAIN t[2]} =
                         {f \in MergedRegions : MonthlyRegion(f) \/ WeeklyRegion(f)}

\* a strict run over a monthly and a weekly region has ended with status 3
C15_Witness ==
    /\ MergeRan /\ C15_Mixed /\ call.a.strict_same_freq
    /\ ret[1].status = 3 /\ ret[1].files = {}

\* the rows of a period file, as <<period_start, vals>>
FileRows(file) ==
    {<<file.rows[n].period_start, file.rows[n].vals>> : n \in DOMAIN file.rows}

\* the rows of region f in table t, with the columns of the file cut out
RegionRows(t, f, freq, file) ==
    {<<t[n].period_start, [v \in file.cols |-> t[n].vals[v]]>> :
        n \in {k \in DOMAIN t : t[k].fips = f /\ t[k].frequency = freq}}

\* C16: in the merged table, the rows of a region whose monthly file is
\* present are those of the monthly file (none if it yields none), whether
\* or not the weekly file is present too; the rows of a region with a weekly
\* file and no monthly file are those of the weekly file; a region with
\* neither has no rows; and every row of a region carries the frequency of
\* the file that was read.
C16_MonthlyPreferred ==
    (MergeRan /\ ret[1].status = 0) =>
        \A t \in WideTables : \A f \in MergedRegions :
            LET dir  == call.indir[f]
                freq == IF dir.monthly.exists THEN "monthly" ELSE "weekly"
                file == IF dir.monthly.exists THEN dir.monthly ELSE dir.weekly
            IN  /\ \A n \in DOMAIN t[2] :
                      t[2][n].fips = f => t[2][n].frequency = freq
                /\ IF Usable(file, freq)
                   THEN RegionRows(t[2], f, freq, file) = FileRows(file)
                   ELSE \A n \in DOMAIN t[2] : t[2][n].fips # f

\* a region with both files contributed its monthly rows, next to a region
\* that has a weekly file only
C16_Witness ==
    /\ MergeRan /\ ret[1].status = 0
    /\ \E f, g \in MergedRegions :
          /\ call.indir[f].monthly = MonthlyOk /\ call.indir[f].weekly = WeeklyOk
          /\ WeeklyRegion(g)
          /\ \A t \in WideTables :
                /\ \E n \in DOMAIN t[2] :
                      t[2][n].fips = f /\ t[2][n].frequency = "monthly"
                /\ \E n \in DOMAIN t[2] :
                      t[2][n].fips = g /\ t[2][n].frequency = "weekly"
                /\ \A n \in DOMAIN t[2] :
                      t[2][n].fips = f => t[2][n].frequency = "monthly"

====
